---- MODULE Spec2Model ----
(***************************************************************************)
(* Model of wsi/filter.py: the filter pipeline of python-wsi-preprocessing. *)
(* Images are H x W arrays; every filter_* function is one action that     *)
(* computes its result, reports it through np_info and returns it.         *)
(* float64 arithmetic is modelled bit-exactly (round-to-nearest-even on a  *)
(* 53-bit significand) on fixed-point magnitudes.                          *)
(***************************************************************************)
EXTENDS Integers, Sequences, FiniteSets, TLC

VARIABLES np_img, calls, stdout, err, pc, defined

vars == <<np_img, calls, stdout, err, pc, defined>>

(* ------------------------------ bounds -------------------------------- *)
H == 2
W == 2
MaxCalls == 2
\* fixed-point resolution of the float64 model: magnitudes are multiples of 2^-FRAC
FRAC == 56
\* a magnitude is NL limbs of LimbBits bits each, least significant first
LimbBits == 20
NL == 4
\* significand width of a float64
PREC == 53

Pixels == (1..H) \X (1..W)

(* ------------------------- float64 arithmetic ------------------------- *)
RECURSIVE Pow2(_)
Pow2(n) == IF n = 0 THEN 1 ELSE 2 * Pow2(n - 1)

Base == Pow2(LimbBits)

MagZero == [j \in 1..NL |-> 0]

RECURSIVE CarryIn(_, _, _)
CarryIn(a, b, j) ==
  IF j = 1 THEN 0 ELSE (a[j - 1] + b[j - 1] + CarryIn(a, b, j - 1)) \div Base

MagAdd(a, b) == [j \in 1..NL |-> (a[j] + b[j] + CarryIn(a, b, j)) % Base]

RECURSIVE BorrowIn(_, _, _)
BorrowIn(a, b, j) ==
  IF j = 1 THEN 0
  ELSE IF a[j - 1] - b[j - 1] - BorrowIn(a, b, j - 1) < 0 THEN 1 ELSE 0

\* a - b for a >= b
MagSub(a, b) == [j \in 1..NL |-> (a[j] - b[j] - BorrowIn(a, b, j)) % Base]

MagLess(a, b) ==
  \E j \in 1..NL : a[j] < b[j] /\ \A k \in (j + 1)..NL : a[k] = b[k]

Limb(a, j) == IF j \in 1..NL THEN a[j] ELSE 0

MagShiftL(a, k) ==
  LET q == k \div LimbBits
      r == k % LimbBits
  IN [j \in 1..NL |->
        (Limb(a, j - q) % Pow2(LimbBits - r)) * Pow2(r)
          + Limb(a, j - q - 1) \div Pow2(LimbBits - r)]

MagShiftR(a, k) ==
  LET q == k \div LimbBits
      r == k % LimbBits
  IN [j \in 1..NL |->
        Limb(a, j + q) \div Pow2(r)
          + (Limb(a, j + q + 1) % Pow2(r)) * Pow2(LimbBits - r)]

RECURSIVE MulCarry(_, _, _)
MulCarry(a, k, j) ==
  IF j = 1 THEN 0 ELSE (a[j - 1] * k + MulCarry(a, k, j - 1)) \div Base

\* a * k for an integer k below 1024
MagMulInt(a, k) == [j \in 1..NL |-> (a[j] * k + MulCarry(a, k, j)) % Base]

RECURSIVE Width(_)
Width(n) == IF n = 0 THEN 0 ELSE 1 + Width(n \div 2)

\* number of significant bits
BitLen(a) ==
  IF a = MagZero THEN 0
  ELSE LET top == CHOOSE j \in 1..NL : a[j] # 0 /\ \A k \in (j + 1)..NL : a[k] = 0
       IN LimbBits * (top - 1) + Width(a[top])

\* bit i of a magnitude, counted from 1 at the least significant end
Bit(a, i) == (a[(i - 1) \div LimbBits + 1] \div Pow2((i - 1) % LimbBits)) % 2

\* round-to-nearest-even to a PREC-bit significand (the rounding of every float64 operation)
RoundMag(m) ==
  LET d == BitLen(m) - PREC
  IN IF d <= 0 THEN m
     ELSE LET kept == [j \in 1..NL |->
                         LET lo == LimbBits * (j - 1)
                         IN IF lo + LimbBits <= d THEN 0
                            ELSE IF lo >= d THEN m[j]
                            ELSE m[j] - (m[j] % Pow2(d - lo))]
              up == /\ Bit(m, d) = 1
                    /\ \/ Bit(m, d + 1) = 1
                       \/ \E i \in 1..(d - 1) : Bit(m, i) = 1
          IN IF up
             THEN MagAdd(kept, [j \in 1..NL |->
                                  IF j = d \div LimbBits + 1 THEN Pow2(d % LimbBits) ELSE 0])
             ELSE kept

\* the magnitude of a non-negative integer below 2^LimbBits
MagOfInt(n) == MagShiftL([j \in 1..NL |-> IF j = 1 THEN n ELSE 0], FRAC)

\* integer part of a magnitude below 2^(LimbBits + 10) (truncation toward zero)
IntPart(m) == LET s == MagShiftR(m, FRAC) IN s[1] + Base * s[2]

Float(neg, mag) == [neg |-> neg /\ mag # MagZero, mag |-> mag]

FloatOfInt(n) == IF n < 0 THEN Float(TRUE, MagOfInt(-n)) ELSE Float(FALSE, MagOfInt(n))

RECURSIVE HexBits(_, _, _)
\* bits lo .. lo + n - 1 (from 0 at the least significant end) of a 14-hex-digit number
HexBits(hex, lo, n) ==
  IF n = 0 THEN 0
  ELSE (IF lo < 56 THEN (hex[14 - (lo \div 4)] \div Pow2(lo % 4)) % 2 ELSE 0)
         + 2 * HexBits(hex, lo + 1, n - 1)

\* the float64 with the 14-hex-digit significand hex (first digit 1) and binary exponent e
Dbl(hex, e) ==
  Float(FALSE,
        MagShiftL([j \in 1..NL |-> HexBits(hex, LimbBits * (j - 1), LimbBits)],
                  e - 52 + FRAC))

\* exact signed sum of two fixed-point values, before rounding
ExactAdd(x, y) ==
  IF x.neg = y.neg THEN Float(x.neg, MagAdd(x.mag, y.mag))
  ELSE IF MagLess(x.mag, y.mag) THEN Float(y.neg, MagSub(y.mag, x.mag))
  ELSE Float(x.neg, MagSub(x.mag, y.mag))

FRound(x) == Float(x.neg, RoundMag(x.mag))

FNeg(x) == Float(~x.neg, x.mag)

FAdd(x, y) == FRound(ExactAdd(x, y))

FSub(x, y) == FRound(ExactAdd(x, FNeg(y)))

\* float64 product of an integer in 0..255 (exactly representable) and a float64
FMulInt(k, x) == FRound(Float(x.neg, MagMulInt(x.mag, k)))

FZero == FloatOfInt(0)
FOne == FloatOfInt(1)
F255 == FloatOfInt(255)


(* ------------------------------- arrays ------------------------------- *)
\* an image: kind "ndarray" or "PIL", element type, 2 (gray) or 3 (RGB) axes, pixel data
Array(kind, dtype, ndim, data) ==
  [kind |-> kind, dtype |-> dtype, ndim |-> ndim, data |-> data]

NdArray(dtype, data) == Array("ndarray", dtype, 2, data)

BoolToInt(b) == IF b THEN 1 ELSE 0

\* ndarray.astype(bool) on one element: any non-zero value is True
ElemToBool(dtype, v) ==
  IF dtype = "bool" THEN v
  ELSE IF dtype = "float64" THEN v.mag # MagZero
  ELSE v # 0

\* a bool element as an operand of float64 / int64 arithmetic
ElemToFloat(dtype, v) ==
  IF dtype = "float64" THEN v
  ELSE IF dtype = "bool" THEN FloatOfInt(BoolToInt(v))
  ELSE FloatOfInt(v)

\* faulty variant: conversion to uint8 that rounds to the nearest integer
FloatToUint8_rounded(x) == IntPart(ExactAdd(x, Float(FALSE, MagShiftR(MagOfInt(1), 1))).mag) % 256

\* float64 -> uint8 conversion of astype("uint8"): truncation toward zero, then 8 bits
FloatToUint8(x) == IntPart(x.mag) % 256

(* --------------------- scipy / scikit-image routines ------------------ *)
\* raster index of a pixel; label 0 is the background
Idx(p) == (p[1] - 1) * W + p[2]

\* scipy.ndimage default structuring element: the 4 edge-sharing neighbours
Adjacent(p, q) ==
  \/ p[1] = q[1] /\ (p[2] - q[2] = 1 \/ q[2] - p[2] = 1)
  \/ p[2] = q[2] /\ (p[1] - q[1] = 1 \/ q[1] - p[1] = 1)

SetMin(S) == CHOOSE x \in S : \A y \in S : x <= y

RECURSIVE Propagate(_, _)
Propagate(mask, lab) ==
  LET nxt == [p \in Pixels |->
                IF mask[p]
                THEN SetMin({lab[q] : q \in {r \in Pixels : mask[r] /\ (r = p \/ Adjacent(p, r))}})
                ELSE 0]
  IN IF nxt = lab THEN lab ELSE Propagate(mask, nxt)

\* ndi.label(mask): one label per connected component of the True pixels
Label(mask) == Propagate(mask, [p \in Pixels |-> IF mask[p] THEN Idx(p) ELSE 0])

\* sk_morphology.remove_small_objects(ar, min_size) with its default connectivity=1
remove_small_objects(ar, min_size) ==
  IF min_size = 0 THEN ar
  ELSE LET ccs == Label(ar)
           component_sizes == [l \in 0..(H * W) |-> Cardinality({p \in Pixels : ccs[p] = l})]
           too_small == [l \in 0..(H * W) |-> component_sizes[l] < min_size]
       IN [p \in Pixels |-> IF too_small[ccs[p]] THEN FALSE ELSE ar[p]]

\* sk_filters.apply_hysteresis_threshold(image, low, high) on integer data
apply_hysteresis_threshold(image, low, high) ==
  LET lo == IF low > high THEN high ELSE low
      mask_low == [p \in Pixels |-> image[p] > lo]
      mask_high == [p \in Pixels |-> image[p] > high]
      labels_low == Label(mask_low)
      sums == [l \in 0..(H * W) |->
                 Cardinality({p \in Pixels : labels_low[p] = l /\ mask_high[p]})]
  IN [p \in Pixels |-> sums[labels_low[p]] > 0]

Values(image) == {image[p] : p \in Pixels}

RECURSIVE SetSum(_)
SetSum(S) == IF S = {} THEN 0 ELSE LET x == CHOOSE y \in S : TRUE IN x[2] + SetSum(S \ {x})

\* w1 * w2 * (mean1 - mean2)^2 for the split at t, as the fraction <<numerator, denominator>>
Variance12(image, t) ==
  LET lo == {<<p, image[p]>> : p \in {q \in Pixels : image[q] <= t}}
      hi == {<<p, image[p]>> : p \in {q \in Pixels : image[q] > t}}
      w1 == Cardinality(lo)
      w2 == Cardinality(hi)
      d == SetSum(lo) * w2 - SetSum(hi) * w1
  IN <<d * d, w1 * w2>>

\* sk_filters.threshold_otsu on integer data with more than one value: the first
\* bin centre maximising the between-class variance (empty bins leave it unchanged,
\* so the first maximum is at a value that occurs in the image)
threshold_otsu(image) ==
  LET cand == {v \in Values(image) : \E u \in Values(image) : u > v}
      Better(a, b) == a[1] * b[2] > b[1] * a[2]
      best == {t \in cand : \A u \in cand : ~Better(Variance12(image, u), Variance12(image, t))}
  IN SetMin(best)


(* --------------------------- wsi/filter.py ---------------------------- *)
\* the names the module's def statements bind, in source order
FunctionNames ==
  <<"pil_to_np_rgb", "np_to_pil", "filter_rgb_to_grayscale", "filter_complement", "np_info",
    "filter_hysteresis_threshold", "filter_otsu_threshold", "filter_local_otsu_threshold",
    "filter_entropy", "filter_canny", "filter_remove_small_objects", "filter_contrast_stretch",
    "filter_histogram_equalization", "filter_adaptive_equalization",
    "filter_local_equalization", "filter_autolevel", "filter_subtract_mean", "filter_modal">>

\* the statements of the module in execution order, by source line: the 18 def
\* statements, then the module-level script
ScriptLines ==
  <<33, 51, 64, 86, 106, 128, 153, 177, 203, 228, 254, 279, 299, 324, 348, 365, 379, 393,
    413, 416, 417, 418, 419, 462>>

\* pc past the last line of the module; pc = 0 is a caller of the imported functions
Done == 464

\* where control continues after the statement at pc
Succ(at) ==
  IF at = 0 THEN 0
  ELSE LET i == CHOOSE j \in 1..Len(ScriptLines) : ScriptLines[j] = at
       IN IF i = Len(ScriptLines) THEN Done ELSE ScriptLines[i + 1]

\* the float64 values of the literals 0.2125, 0.7154, 0.0721
\* (0x1.b333333333333p-3, 0x1.6e48e8a71de6ap-1, 0x1.27525460aa64cp-4)
Weights ==
  <<Dbl(<<1, 11, 3, 3, 3, 3, 3, 3, 3, 3, 3, 3, 3, 3>>, -3),
    Dbl(<<1, 6, 14, 4, 8, 14, 8, 10, 7, 1, 13, 14, 6, 10>>, -1),
    Dbl(<<1, 2, 7, 5, 2, 5, 4, 6, 0, 10, 10, 6, 4, 12>>, -4)>>

\* the ways a build's np.dot may sum the three products: any order, with or
\* without fused multiply-add
DotKernels ==
  [perm : {<<1, 2, 3>>, <<1, 3, 2>>, <<2, 1, 3>>, <<2, 3, 1>>, <<3, 1, 2>>, <<3, 2, 1>>},
   fused : BOOLEAN]

ExactMul(k, x) == Float(x.neg, MagMulInt(x.mag, k))

\* faulty variant: the blue channel left out of the sum
Dot_two_channels(c, kernel) ==
  FAdd(FMulInt(c[1], Weights[1]), FMulInt(c[2], Weights[2]))

\* np.dot(np_img[..., :3], [0.2125, 0.7154, 0.0721]) at one pixel
Dot(c, kernel) ==
  LET i == kernel.perm[1]
      j == kernel.perm[2]
      k == kernel.perm[3]
      first == FMulInt(c[i], Weights[i])
  IN IF kernel.fused
     THEN FRound(ExactAdd(ExactMul(c[k], Weights[k]),
                          FRound(ExactAdd(ExactMul(c[j], Weights[j]), first))))
     ELSE FAdd(FAdd(first, FMulInt(c[j], Weights[j])), FMulInt(c[k], Weights[k]))

\* faulty variant: the two thresholds passed in the wrong order
hysteresis_mask_swapped(image, low, high) == apply_hysteresis_threshold(image, high, low)

\* line 142: hyst = sk_filters.apply_hysteresis_threshold(np_img, low, high)
hysteresis_mask(image, low, high) == apply_hysteresis_threshold(image, low, high)

\* faulty variant: pixels equal to the threshold counted as foreground
otsu_mask_inclusive(image, otsu_thresh_value) ==
  [p \in Pixels |-> image[p] >= otsu_thresh_value]

\* line 166: otsu = (np_img > otsu_thresh_value)
otsu_mask(image, otsu_thresh_value) == [p \in Pixels |-> image[p] > otsu_thresh_value]

\* faulty variant: components of exactly min_size pixels removed as well
remove_small_mask_inclusive(arr, min_size) ==
  remove_small_objects([p \in Pixels |-> ElemToBool(arr.dtype, arr.data[p])], min_size + 1)

\* lines 267-268: rem_sm = np_img.astype(bool), then remove_small_objects(rem_sm, min_size=min_size)
remove_small_mask(arr, min_size) ==
  remove_small_objects([p \in Pixels |-> ElemToBool(arr.dtype, arr.data[p])], min_size)

pil_to_np_rgb_ret(pil_img) == Array("ndarray", "uint8", pil_img.ndim, pil_img.data)

np_to_pil_ret(arr) == Array("PIL", arr.dtype, arr.ndim, arr.data)

filter_rgb_to_grayscale_ret(arr, output_type, kernel) ==
  LET grayscale == [p \in Pixels |-> Dot(arr.data[p], kernel)]
  IN IF output_type # "float"
     THEN NdArray("uint8", [p \in Pixels |-> FloatToUint8(grayscale[p])])
     ELSE NdArray("float64", grayscale)

\* faulty variant: the integer branch subtracts from 256
filter_complement_ret_256(arr, output_type) ==
  IF output_type = "float"
  THEN NdArray("float64", [p \in Pixels |-> FSub(FOne, ElemToFloat(arr.dtype, arr.data[p]))])
  ELSE IF arr.dtype = "float64"
  THEN NdArray("float64", [p \in Pixels |-> FSub(FloatOfInt(256), arr.data[p])])
  ELSE NdArray("uint8", [p \in Pixels |-> (256 - arr.data[p]) % 256])

filter_complement_ret(arr, output_type) ==
  IF output_type = "float"
  THEN NdArray("float64", [p \in Pixels |-> FSub(FOne, ElemToFloat(arr.dtype, arr.data[p]))])
  ELSE IF arr.dtype = "float64"
  THEN NdArray("float64", [p \in Pixels |-> FSub(F255, arr.data[p])])
  ELSE IF arr.dtype = "uint8"
  THEN NdArray("uint8", [p \in Pixels |-> (255 - arr.data[p]) % 256])
  ELSE IF arr.dtype = "bool"
  THEN NdArray("int64", [p \in Pixels |-> 255 - BoolToInt(arr.data[p])])
  ELSE NdArray("int64", [p \in Pixels |-> 255 - arr.data[p]])

\* mask.astype(float)
AsTypeFloat(mask) == NdArray("float64", [p \in Pixels |-> FloatOfInt(BoolToInt(mask[p]))])

\* mask.astype("uint8") * 255
AsTypeUint8Times255(mask) ==
  NdArray("uint8", [p \in Pixels |-> ((BoolToInt(mask[p]) % 256) * 255) % 256])

\* (255 * mask).astype("uint8")
Times255AsTypeUint8(mask) ==
  NdArray("uint8", [p \in Pixels |-> (255 * BoolToInt(mask[p])) % 256])

filter_hysteresis_threshold_ret(hyst, output_type) ==
  IF output_type = "bool" THEN NdArray("bool", hyst)
  ELSE IF output_type = "float" THEN AsTypeFloat(hyst)
  ELSE Times255AsTypeUint8(hyst)

filter_otsu_threshold_ret(otsu, output_type) ==
  IF output_type = "bool" THEN NdArray("bool", otsu)
  ELSE IF output_type = "float" THEN AsTypeFloat(otsu)
  ELSE AsTypeUint8Times255(otsu)

filter_local_otsu_threshold_ret(local_otsu, output_type) ==
  IF output_type = "bool" THEN NdArray("bool", local_otsu)
  ELSE IF output_type = "float" THEN AsTypeFloat(local_otsu)
  ELSE AsTypeUint8Times255(local_otsu)

filter_entropy_ret(entr, output_type) ==
  IF output_type = "bool" THEN NdArray("bool", entr)
  ELSE IF output_type = "float" THEN AsTypeFloat(entr)
  ELSE AsTypeUint8Times255(entr)

filter_canny_ret(can, output_type) ==
  IF output_type = "bool" THEN NdArray("bool", can)
  ELSE IF output_type = "float" THEN AsTypeFloat(can)
  ELSE AsTypeUint8Times255(can)

\* faulty variant: only the selector "uint8" takes the uint8 branch
filter_remove_small_objects_ret_strict(rem_sm, output_type) ==
  IF output_type = "float" THEN AsTypeFloat(rem_sm)
  ELSE IF output_type = "uint8" THEN AsTypeUint8Times255(rem_sm)
  ELSE NdArray("bool", rem_sm)

filter_remove_small_objects_ret(rem_sm, output_type) ==
  IF output_type = "bool" THEN NdArray("bool", rem_sm)
  ELSE IF output_type = "float" THEN AsTypeFloat(rem_sm)
  ELSE AsTypeUint8Times255(rem_sm)

\* faulty variant: the uint8 branch without the scaling by 255
filter_autolevel_ret_unscaled(autolevel, output_type) ==
  IF output_type = "bool" THEN NdArray("bool", autolevel)
  ELSE IF output_type = "float" THEN AsTypeFloat(autolevel)
  ELSE NdArray("uint8", [p \in Pixels |-> BoolToInt(autolevel[p]) % 256])

filter_autolevel_ret(autolevel, output_type) ==
  IF output_type = "bool" THEN NdArray("bool", autolevel)
  ELSE IF output_type = "float" THEN AsTypeFloat(autolevel)
  ELSE AsTypeUint8Times255(autolevel)

filter_subtract_mean_ret(subtract_mean, output_type) ==
  IF output_type = "bool" THEN NdArray("bool", subtract_mean)
  ELSE IF output_type = "float" THEN AsTypeFloat(subtract_mean)
  ELSE AsTypeUint8Times255(subtract_mean)

\* (x * 255).astype("uint8") of the equalization filters, x a float64 array
filter_equalization_ret(equ, output_type) ==
  IF output_type = "float" THEN NdArray("float64", equ)
  ELSE NdArray("uint8", [p \in Pixels |-> FloatToUint8(FMulInt(255, equ[p]))])


(* ------------------------------ actions ------------------------------- *)
\* faulty variant: the statistics are computed and the line is not printed
np_info_silent(out, np_arr, name) == out

\* np_info(np_arr, name, elapsed): one line on standard output
np_info(out, np_arr, name) ==
  Append(out, [name |-> name, dtype |-> np_arr.dtype, arr |-> np_arr])

\* the function computed ret from arg, reported it and returns it to the caller
Return(fn, arg, output_type, local, ret, name) ==
  /\ calls' = Append(calls, [fn |-> fn, arg |-> arg, output_type |-> output_type,
                             local |-> local, ret |-> ret])
  /\ stdout' = np_info(stdout, ret, name)
  /\ pc' = Succ(pc)
  /\ UNCHANGED <<np_img, err, defined>>

Raise(e) ==
  /\ err' = e
  /\ UNCHANGED <<np_img, calls, stdout, pc, defined>>

IsGray(arr) == arr.kind = "ndarray" /\ arr.ndim = 2
IsGrayUint8(arr) == IsGray(arr) /\ arr.dtype = "uint8"

\* results a rank filter of skimage.filters.rank may give on arr (not modelled further)
RankResults(arr) == {[p \in Pixels |-> v] : v \in Values(arr.data)} \cup {arr.data}

\* results a boolean edge / entropy map may take on arr (not modelled further)
MaskResults(arr) ==
  {[p \in Pixels |-> FALSE], [p \in Pixels |-> TRUE], [p \in Pixels |-> arr.data[p] # 0]}

\* results of the skimage.exposure equalizations: float64 arrays within [0, 1]
EqualizeResults == {[p \in Pixels |-> FZero], [p \in Pixels |-> FOne]}

pil_to_np_rgb(pil_img) ==
  /\ err = "none" /\ pil_img.kind = "PIL"
  /\ LET rgb == pil_to_np_rgb_ret(pil_img)
     IN Return("pil_to_np_rgb", pil_img, "", rgb, rgb, "RGB")

np_to_pil(arr) ==
  /\ err = "none" /\ arr.kind = "ndarray"
  /\ calls' = Append(calls, [fn |-> "np_to_pil", arg |-> arr, output_type |-> "",
                             local |-> arr, ret |-> np_to_pil_ret(arr)])
  /\ pc' = Succ(pc)
  /\ UNCHANGED <<np_img, stdout, err, defined>>

filter_rgb_to_grayscale(arr, output_type, kernel) ==
  /\ err = "none" /\ arr.kind = "ndarray" /\ arr.ndim = 3
  /\ LET grayscale == filter_rgb_to_grayscale_ret(arr, output_type, kernel)
     IN Return("filter_rgb_to_grayscale", arr, output_type, kernel, grayscale, "Gray")

filter_complement(arr, output_type) ==
  /\ err = "none" /\ IsGray(arr)
  /\ LET complement == filter_complement_ret(arr, output_type)
     IN Return("filter_complement", arr, output_type, complement, complement, "Complement")

filter_hysteresis_threshold(arr, low, high, output_type) ==
  /\ err = "none" /\ IsGrayUint8(arr)
  /\ LET hyst == hysteresis_mask(arr.data, low, high)
     IN Return("filter_hysteresis_threshold", arr, output_type,
               [low |-> low, high |-> high, mask |-> hyst],
               filter_hysteresis_threshold_ret(hyst, output_type), "Hysteresis Threshold")

\* threshold_otsu on an image of a single value: a ValueError in the scikit-image
\* releases that reject it, the value itself in those that accept it
filter_otsu_threshold(arr, output_type) ==
  /\ err = "none" /\ IsGrayUint8(arr)
  /\ \/ /\ Cardinality(Values(arr.data)) = 1
        /\ Raise("ValueError")
     \/ LET otsu_thresh_value == IF Cardinality(Values(arr.data)) = 1
                                 THEN arr.data[<<1, 1>>]
                                 ELSE threshold_otsu(arr.data)
            otsu == otsu_mask(arr.data, otsu_thresh_value)
        IN Return("filter_otsu_threshold", arr, output_type,
                  [thresh |-> otsu_thresh_value, mask |-> otsu],
                  filter_otsu_threshold_ret(otsu, output_type), "Otsu Threshold")

filter_local_otsu_threshold(arr, rank, output_type) ==
  /\ err = "none" /\ IsGrayUint8(arr)
  /\ LET local_otsu == [p \in Pixels |-> arr.data[p] <= rank[p]]
     IN Return("filter_local_otsu_threshold", arr, output_type, [mask |-> local_otsu],
               filter_local_otsu_threshold_ret(local_otsu, output_type), "Otsu Local Threshold")

filter_entropy(arr, entr, output_type) ==
  /\ err = "none" /\ IsGrayUint8(arr)
  /\ Return("filter_entropy", arr, output_type, [mask |-> entr],
            filter_entropy_ret(entr, output_type), "Entropy")

filter_canny(arr, can, output_type) ==
  /\ err = "none" /\ IsGrayUint8(arr)
  /\ Return("filter_canny", arr, output_type, [mask |-> can],
            filter_canny_ret(can, output_type), "Canny Edges")

filter_remove_small_objects(arr, min_size, output_type) ==
  /\ err = "none" /\ IsGray(arr)
  /\ LET rem_sm == remove_small_mask(arr, min_size)
     IN Return("filter_remove_small_objects", arr, output_type,
               [min_size |-> min_size, mask |-> rem_sm],
               filter_remove_small_objects_ret(rem_sm, output_type), "Remove Small Objs")

filter_contrast_stretch(arr, contrast_stretch) ==
  /\ err = "none" /\ IsGrayUint8(arr)
  /\ LET ret == NdArray("uint8", contrast_stretch)
     IN Return("filter_contrast_stretch", arr, "", ret, ret, "Contrast Stretch")

filter_histogram_equalization(arr, hist_equ, output_type) ==
  /\ err = "none" /\ IsGrayUint8(arr)
  /\ Return("filter_histogram_equalization", arr, output_type, hist_equ,
            filter_equalization_ret(hist_equ, output_type), "Hist Equalization")

filter_adaptive_equalization(arr, adapt_equ, output_type) ==
  /\ err = "none" /\ IsGrayUint8(arr)
  /\ Return("filter_adaptive_equalization", arr, output_type, adapt_equ,
            filter_equalization_ret(adapt_equ, output_type), "Adapt Equalization")

filter_local_equalization(arr, local_equ) ==
  /\ err = "none" /\ IsGrayUint8(arr)
  /\ LET ret == NdArray("uint8", local_equ)
     IN Return("filter_local_equalization", arr, "", ret, ret, "Local Equalization")

filter_autolevel(arr, rank, output_type) ==
  /\ err = "none" /\ IsGrayUint8(arr)
  /\ LET autolevel == [p \in Pixels |-> arr.data[p] > rank[p]]
     IN Return("filter_autolevel", arr, output_type, [mask |-> autolevel],
               filter_autolevel_ret(autolevel, output_type), "Auto Level")

filter_subtract_mean(arr, rank, output_type) ==
  /\ err = "none" /\ IsGrayUint8(arr)
  /\ LET subtract_mean == [p \in Pixels |-> arr.data[p] > rank[p]]
     IN Return("filter_subtract_mean", arr, output_type, [mask |-> subtract_mean],
               filter_subtract_mean_ret(subtract_mean, output_type), "Subtract Mean")

\* the output_type parameter of filter_modal is accepted and never read
filter_modal(arr, modal, output_type) ==
  /\ err = "none" /\ IsGrayUint8(arr)
  /\ LET ret == NdArray("uint8", modal)
     IN Return("filter_modal", arr, output_type, ret, ret, "Modal")

(* ----------------------- the module-level script ---------------------- *)
\* a def statement binds its name in the module namespace
ExecDef ==
  /\ err = "none"
  /\ \E i \in 1..Len(FunctionNames) :
       /\ pc = ScriptLines[i]
       /\ defined' = defined \cup {FunctionNames[i]}
  /\ pc' = Succ(pc)
  /\ UNCHANGED <<np_img, calls, stdout, err>>

\* lines 413-414: img = slide.open_image(slide.get_training_thumb_path(2))
OpenImage ==
  /\ err = "none" /\ pc = 413
  /\ pc' = Succ(pc)
  /\ UNCHANGED <<np_img, calls, stdout, err, defined>>

\* line 416: rgb = pil_to_np_rgb(img)
Line416 ==
  /\ pc = 416
  /\ IF "pil_to_np_rgb" \in defined THEN pil_to_np_rgb(np_img) ELSE Raise("NameError")

\* line 417: gray = filter_rgb_to_grayscale(rgb)
Line417 ==
  /\ pc = 417
  /\ IF "filter_rgb_to_grayscale" \in defined
     THEN \E kernel \in DotKernels : filter_rgb_to_grayscale(calls[1].ret, "uint8", kernel)
     ELSE Raise("NameError")

\* line 418: np_to_pil(gray).show()
Line418 ==
  /\ pc = 418
  /\ IF "np_to_pil" \in defined THEN np_to_pil(calls[2].ret) ELSE Raise("NameError")

\* line 419: complement = filter_complement(gray)
Line419 ==
  /\ pc = 419
  /\ IF "filter_complement" \in defined
     THEN filter_complement(calls[2].ret, "uint8")
     ELSE Raise("NameError")

\* line 462: tryit = filter_try(gray); the def of filter_try (lines 400-411) is commented out
Line462 ==
  /\ pc = 462 /\ err = "none"
  /\ IF "filter_try" \in defined
     THEN pc' = Succ(pc) /\ UNCHANGED <<np_img, calls, stdout, err, defined>>
     ELSE Raise("NameError")


(* --------------------------- inputs and specs ------------------------- *)
\* the recognized selectors and one that is none of them
OutputTypes == {"bool", "float", "uint8", "int16"}

GrayImages(levels) == {NdArray("uint8", d) : d \in [Pixels -> levels]}
FloatImages(vals) == {NdArray("float64", d) : d \in [Pixels -> vals]}
RgbImages(kind, colours) == {Array(kind, "uint8", 3, d) : d \in [Pixels -> colours]}

White == <<255, 255, 255>>
Sample == <<100, 150, 200>>
Gray43 == <<43, 43, 43>>

\* the float64 values of 0.1, 0.5 and 0.75
FTenth == Dbl(<<1, 9, 9, 9, 9, 9, 9, 9, 9, 9, 9, 9, 9, 10>>, -4)
FHalf == Dbl(<<1, 0, 0, 0, 0, 0, 0, 0, 0, 0, 0, 0, 0, 0>>, -1)
FThreeQuarters == Dbl(<<1, 8, 0, 0, 0, 0, 0, 0, 0, 0, 0, 0, 0, 0>>, -1)

\* what a caller may pass: the image it holds or the result of its last call
Operands == {np_img} \cup (IF calls = <<>> THEN {} ELSE {calls[Len(calls)].ret})

InitCaller(inputs) ==
  /\ np_img \in inputs
  /\ calls = <<>>
  /\ stdout = <<>>
  /\ err = "none"
  /\ pc = 0
  /\ defined = {FunctionNames[i] : i \in 1..Len(FunctionNames)}

\* any sequence of at most MaxCalls calls of the module's functions
ApiInputs ==
  RgbImages("PIL", {White}) \cup RgbImages("ndarray", {Sample})
    \cup {NdArray("uint8", [p \in Pixels |-> IF Idx(p) % 2 = 1 THEN 10 ELSE 240])}

Init == InitCaller(ApiInputs)

Next ==
  /\ Len(calls) < MaxCalls
  /\ \E arr \in Operands :
       \/ pil_to_np_rgb(arr)
       \/ np_to_pil(arr)
       \/ \E t \in {"uint8", "float"} : filter_rgb_to_grayscale(arr, t, [perm |-> <<1, 2, 3>>, fused |-> FALSE])
       \/ \E t \in {"uint8", "float"} : filter_complement(arr, t)
       \/ \E t \in {"uint8", "bool"} : filter_hysteresis_threshold(arr, 50, 100, t)
       \/ \E t \in {"uint8", "bool"} : filter_otsu_threshold(arr, t)
       \/ \E t \in {"uint8", "bool"} : filter_local_otsu_threshold(arr, arr.data, t)
       \/ \E t \in {"uint8", "bool"} : filter_entropy(arr, [p \in Pixels |-> arr.data[p] # 0], t)
       \/ \E t \in {"uint8", "bool"} : filter_canny(arr, [p \in Pixels |-> arr.data[p] # 0], t)
       \/ \E t \in {"uint8", "bool"} : filter_remove_small_objects(arr, 2, t)
       \/ filter_contrast_stretch(arr, arr.data)
       \/ \E t \in {"uint8", "float"}, e \in EqualizeResults : filter_histogram_equalization(arr, e, t)
       \/ \E t \in {"uint8", "float"}, e \in EqualizeResults : filter_adaptive_equalization(arr, e, t)
       \/ filter_local_equalization(arr, arr.data)
       \/ \E t \in {"uint8", "bool"} : filter_autolevel(arr, [p \in Pixels |-> 100], t)
       \/ \E t \in {"uint8", "bool"} : filter_subtract_mean(arr, [p \in Pixels |-> 100], t)
       \/ \E t \in {"uint8", "bool"} : filter_modal(arr, arr.data, t)

Spec == Init /\ [][Next]_vars

\* one call of a transform that takes the three-valued selector
NormInputs == GrayImages({0, 240})

InitNorm == InitCaller(NormInputs)

NextNorm ==
  /\ calls = <<>>
  /\ \E t \in OutputTypes :
       \/ filter_hysteresis_threshold(np_img, 50, 100, t)
       \/ filter_otsu_threshold(np_img, t)
       \/ \E rank \in RankResults(np_img) : filter_local_otsu_threshold(np_img, rank, t)
       \/ \E entr \in MaskResults(np_img) : filter_entropy(np_img, entr, t)
       \/ \E can \in MaskResults(np_img) : filter_canny(np_img, can, t)
       \/ filter_remove_small_objects(np_img, 2, t)
       \/ \E rank \in RankResults(np_img) : filter_autolevel(np_img, rank, t)
       \/ \E rank \in RankResults(np_img) : filter_subtract_mean(np_img, rank, t)

SpecNorm == InitNorm /\ [][NextNorm]_vars

\* one call of filter_remove_small_objects
CleanupInputs == GrayImages({0, 7}) \cup FloatImages({FZero, FTenth})

InitCleanup == InitCaller(CleanupInputs)

NextCleanup ==
  /\ calls = <<>>
  /\ \E min_size \in 0..(H * W + 1), t \in {"uint8", "bool"} :
       filter_remove_small_objects(np_img, min_size, t)

SpecCleanup == InitCleanup /\ [][NextCleanup]_vars

\* one call of filter_otsu_threshold
OtsuInputs == GrayImages({10, 100, 240})

InitOtsu == InitCaller(OtsuInputs)

NextOtsu ==
  /\ calls = <<>>
  /\ \E t \in {"uint8", "bool"} : filter_otsu_threshold(np_img, t)

SpecOtsu == InitOtsu /\ [][NextOtsu]_vars

\* one call of filter_hysteresis_threshold
HystInputs == GrayImages({0, 60, 120})

InitHyst == InitCaller(HystInputs)

NextHyst ==
  /\ calls = <<>>
  /\ \E th \in {<<0, 60>>, <<100, 50>>}, t \in {"uint8"} :
       filter_hysteresis_threshold(np_img, th[1], th[2], t)

SpecHyst == InitHyst /\ [][NextHyst]_vars

\* the luminance stage: one grayscale reduction, or a complement and its complement
LumInputs ==
  {img \in RgbImages("ndarray", {White, Sample}) :
     Cardinality({p \in Pixels : img.data[p] = Sample}) \in {0, 1, H * W}}
    \cup RgbImages("ndarray", {Gray43})
    \cup GrayImages({128, 255}) \cup GrayImages({0})
    \cup FloatImages({FTenth, FThreeQuarters}) \cup FloatImages({FZero})
    \cup FloatImages({FHalf}) \cup FloatImages({FOne})

InitLum == InitCaller(LumInputs)

NextLum ==
  \/ /\ calls = <<>>
     /\ \E t \in {"uint8", "float", "int16"}, kernel \in DotKernels :
          filter_rgb_to_grayscale(np_img, t, kernel)
  \/ /\ calls = <<>>
     /\ \E t \in {"uint8", "float"} : filter_complement(np_img, t)
  \/ /\ Len(calls) = 1
     /\ calls[1].fn = "filter_complement"
     /\ filter_complement(calls[1].ret, calls[1].output_type)

SpecLum == InitLum /\ [][NextLum]_vars

\* executing the module from its first statement
ScriptInputs == RgbImages("PIL", {White, Sample})

InitScript ==
  /\ np_img \in ScriptInputs
  /\ calls = <<>>
  /\ stdout = <<>>
  /\ err = "none"
  /\ pc = ScriptLines[1]
  /\ defined = {}

NextScript ==
  \/ ExecDef
  \/ OpenImage
  \/ Line416
  \/ Line417
  \/ Line418
  \/ Line419
  \/ Line462

SpecScript == InitScript /\ [][NextScript]_vars

(* ------------------------------- claims ------------------------------- *)
NormFns ==
  {"filter_hysteresis_threshold", "filter_otsu_threshold", "filter_local_otsu_threshold",
   "filter_entropy", "filter_canny", "filter_remove_small_objects", "filter_autolevel",
   "filter_subtract_mean"}

Recognized == {"bool", "float", "uint8"}

LastCall == calls[Len(calls)]

\* the element the policy prescribes for a foreground decision under a recognized selector
PolicyElem(t, fg) ==
  CASE t = "bool" -> fg
    [] t = "float" -> IF fg THEN FOne ELSE FZero
    [] t = "uint8" -> IF fg THEN 255 ELSE 0

PolicyDtype(t) ==
  CASE t = "bool" -> "bool" [] t = "float" -> "float64" [] t = "uint8" -> "uint8"

\* C1: in each of the eight transforms with the three-valued selector, a recognized
\* selector gives the same mapping of the foreground decision: bool -> True/False,
\* float -> 1.0/0.0, uint8 -> 255/0.
C1_OutputMapping ==
  \A i \in 1..Len(calls) :
    LET c == calls[i]
    IN (c.fn \in NormFns /\ c.output_type \in Recognized) =>
         /\ c.ret.kind = "ndarray"
         /\ c.ret.dtype = PolicyDtype(c.output_type)
         /\ \A p \in Pixels : c.ret.data[p] = PolicyElem(c.output_type, c.local.mask[p])

C1_Witness ==
  /\ calls # <<>>
  /\ LastCall.fn = "filter_autolevel"
  /\ LastCall.output_type = "uint8"
  /\ \E p, q \in Pixels : LastCall.ret.data[p] = 255 /\ LastCall.ret.data[q] = 0

\* C2: a selector that is none of "bool", "float", "uint8" is not rejected: the call
\* can be made wherever it can be made with "uint8", and it returns the uint8 mapping
\* (255 = foreground, 0 = background).
C2_UnrecognizedIsUint8 ==
  /\ \A i \in 1..Len(calls) :
       LET c == calls[i]
       IN (c.fn \in NormFns /\ c.output_type \notin Recognized) =>
            /\ c.ret.dtype = "uint8"
            /\ \A p \in Pixels : c.ret.data[p] = PolicyElem("uint8", c.local.mask[p])
  /\ (calls = <<>> /\ err = "none") =>
       /\ ENABLED filter_hysteresis_threshold(np_img, 50, 100, "int16")
       /\ ENABLED filter_otsu_threshold(np_img, "int16")
       /\ ENABLED filter_local_otsu_threshold(np_img, np_img.data, "int16")
       /\ ENABLED filter_entropy(np_img, [p \in Pixels |-> TRUE], "int16")
       /\ ENABLED filter_canny(np_img, [p \in Pixels |-> TRUE], "int16")
       /\ ENABLED filter_remove_small_objects(np_img, 2, "int16")
       /\ ENABLED filter_autolevel(np_img, np_img.data, "int16")
       /\ ENABLED filter_subtract_mean(np_img, np_img.data, "int16")

C2_Witness ==
  /\ calls # <<>>
  /\ LastCall.fn = "filter_remove_small_objects"
  /\ LastCall.output_type = "int16"
  /\ \E p, q \in Pixels : LastCall.ret.data[p] = 255 /\ LastCall.ret.data[q] = 0

IsCall(c, fn) == c.fn = fn

\* the significand a magnitude needs: its bits between the highest and the lowest set bit
SigBits(m) ==
  IF m = MagZero THEN 0
  ELSE BitLen(m) + 1
         - (CHOOSE i \in 1..(NL * LimbBits) :
              Bit(m, i) = 1 /\ \A j \in 1..(i - 1) : Bit(m, j) = 0)

\* x is a float64 value
Representable(x) == SigBits(x.mag) <= PREC

ValueAt(arr, p) == ElemToFloat(arr.dtype, arr.data[p])

\* the constant filter_complement subtracts from under selector t
Minuend(t) == IF t = "float" THEN FOne ELSE F255

\* the first subtraction of a double complement is exact at pixel p
FirstExact(c, p) ==
  Representable(ExactAdd(Minuend(c.output_type), FNeg(ValueAt(c.arg, p))))

ComplementChain ==
  /\ Len(calls) = 2
  /\ IsCall(calls[1], "filter_complement") /\ IsCall(calls[2], "filter_complement")
  /\ calls[2].arg = calls[1].ret
  /\ calls[2].output_type = calls[1].output_type

\* C3 as stated: complementing twice under the same selector returns every element of
\* every image.
C3_DoubleComplementIdentity ==
  ComplementChain => \A p \in Pixels : ValueAt(calls[2].ret, p) = ValueAt(calls[1].arg, p)

\* C3 amended: complementing twice returns every element at which the first
\* subtraction (255 - x, or 1.0 - x under "float") is exact in float64, which covers
\* every uint8 image; one complement returns 255 - x as uint8 for a uint8 image under
\* "uint8" (128 becomes 127) and the exact difference wherever it is a float64.
C3_DoubleComplementWhereExact ==
  /\ ComplementChain =>
       \A p \in Pixels :
         FirstExact(calls[1], p) => ValueAt(calls[2].ret, p) = ValueAt(calls[1].arg, p)
  /\ \A i \in 1..Len(calls) :
       LET c == calls[i]
       IN IsCall(c, "filter_complement") =>
            \A p \in Pixels :
              /\ (c.arg.dtype = "uint8") => FirstExact(c, p)
              /\ (c.arg.dtype = "uint8" /\ c.output_type # "float") =>
                   /\ c.ret.dtype = "uint8"
                   /\ c.ret.data[p] = 255 - c.arg.data[p]
              /\ FirstExact(c, p) =>
                   ExactAdd(ValueAt(c.ret, p), ValueAt(c.arg, p)) = Minuend(c.output_type)

C3_Witness ==
  /\ ComplementChain
  /\ calls[1].output_type = "float"
  /\ calls[1].arg.dtype = "float64"
  /\ \A p \in Pixels :
       /\ calls[1].arg.data[p] = FThreeQuarters
       /\ calls[2].ret.data[p] = FThreeQuarters

\* C4: under "uint8" every pure-white pixel (255, 255, 255) of an RGB image becomes
\* 255 in the single-channel result, whatever the image size and summation order.
C4_WhiteIs255 ==
  \A i \in 1..Len(calls) :
    LET c == calls[i]
    IN (IsCall(c, "filter_rgb_to_grayscale") /\ c.output_type = "uint8") =>
         /\ c.ret.ndim = 2
         /\ c.ret.dtype = "uint8"
         /\ \A p \in Pixels : c.arg.data[p] = White => c.ret.data[p] = 255

C4_Witness ==
  /\ calls # <<>>
  /\ IsCall(LastCall, "filter_rgb_to_grayscale")
  /\ LastCall.output_type = "uint8"
  /\ \A p \in Pixels : LastCall.arg.data[p] = White /\ LastCall.ret.data[p] = 255

\* 10000 times the exact weighted sum 0.2125 R + 0.7154 G + 0.0721 B
ExactSum10k(c) == 2125 * c[1] + 7154 * c[2] + 721 * c[3]

\* float64 x is within 2^-26 / 10000 of n10k / 10000
CloseTo(x, n10k) ==
  LET a == MagMulInt(MagMulInt(x.mag, 100), 100)
      b == MagAdd(MagMulInt(MagOfInt(n10k \div 1000), 1000), MagOfInt(n10k % 1000))
      d == IF MagLess(a, b) THEN MagSub(b, a) ELSE MagSub(a, b)
  IN ~x.neg /\ MagLess(d, MagShiftR(MagOfInt(1), 26))

\* the weighted sum, kept as float64 under "float" and truncated toward zero otherwise
GrayscaleIsWeightedSum(c) ==
  /\ c.ret.kind = "ndarray" /\ c.ret.ndim = 2
  /\ c.ret.dtype = IF c.output_type = "float" THEN "float64" ELSE "uint8"
  /\ \A p \in Pixels :
       LET s == ExactSum10k(c.arg.data[p])
       IN IF c.output_type = "float"
          THEN CloseTo(c.ret.data[p], s)
          ELSE \/ c.ret.data[p] = s \div 10000
               \/ s % 10000 = 0 /\ c.ret.data[p] = s \div 10000 - 1

\* C8 as stated: the weighted sum, unchanged under "float" and truncated otherwise,
\* with every pixel (100, 150, 200) giving 135.395 and 135.
C8_SampleIs135 ==
  \A i \in 1..Len(calls) :
    LET c == calls[i]
    IN IsCall(c, "filter_rgb_to_grayscale") =>
         /\ GrayscaleIsWeightedSum(c)
         /\ \A p \in Pixels :
              c.arg.data[p] = Sample =>
                IF c.output_type = "float"
                THEN CloseTo(c.ret.data[p], 1353950)
                ELSE c.ret.data[p] = 135

\* C8 amended: the weighted sum, unchanged under "float" and truncated toward zero (not
\* rounded) otherwise, with every pixel (100, 150, 200) giving 142.98 and 142.
C8_SampleIs142 ==
  \A i \in 1..Len(calls) :
    LET c == calls[i]
    IN IsCall(c, "filter_rgb_to_grayscale") =>
         /\ GrayscaleIsWeightedSum(c)
         /\ \A p \in Pixels :
              c.arg.data[p] = Sample =>
                IF c.output_type = "float"
                THEN CloseTo(c.ret.data[p], 1429800)
                ELSE c.ret.data[p] = 142

C8_Witness ==
  /\ calls # <<>>
  /\ IsCall(LastCall, "filter_rgb_to_grayscale")
  /\ LastCall.output_type = "int16"
  /\ \A p \in Pixels : LastCall.arg.data[p] = Sample /\ LastCall.ret.data[p] = 142

Abs(n) == IF n < 0 THEN -n ELSE n

\* pixels sharing an edge / sharing an edge or a corner
EdgeNeighbours(p, q) == Abs(p[1] - q[1]) + Abs(p[2] - q[2]) = 1
CornerNeighbours(p, q) == p # q /\ Abs(p[1] - q[1]) <= 1 /\ Abs(p[2] - q[2]) <= 1

RECURSIVE Grow(_, _, _)
Grow(S, corners, C) ==
  LET more == {q \in S : \E p \in C :
                 IF corners THEN CornerNeighbours(p, q) ELSE EdgeNeighbours(p, q)}
  IN IF more \subseteq C THEN C ELSE Grow(S, corners, C \cup more)

\* the pixels of S joined to p by a path of neighbouring pixels of S
Region(S, corners, p) == Grow(S, corners, {p})

\* the foreground decision a returned array encodes
Foreground(arr, p) ==
  CASE arr.dtype = "bool" -> arr.data[p]
    [] arr.dtype = "float64" -> arr.data[p] = FOne
    [] OTHER -> arr.data[p] = 255

NonZero(arr, p) ==
  IF arr.dtype = "float64" THEN arr.data[p] # FZero ELSE arr.data[p] # 0

\* a pixel is kept exactly when it is non-zero and its component has min_size pixels
CleanupKeepsLarge(c, corners) ==
  LET S == {p \in Pixels : NonZero(c.arg, p)}
  IN \A p \in Pixels :
       Foreground(c.ret, p) <=>
         (p \in S /\ Cardinality(Region(S, corners, p)) >= c.local.min_size)

\* C5 as stated: components under 8-neighbour adjacency below min_size are zeroed,
\* the others are retained, nothing else changes.
C5_CleanupEightNeighbour ==
  \A i \in 1..Len(calls) :
    IsCall(calls[i], "filter_remove_small_objects") => CleanupKeepsLarge(calls[i], TRUE)

\* C5 amended: the same with components under 4-neighbour (edge-sharing) adjacency.
C5_CleanupFourNeighbour ==
  \A i \in 1..Len(calls) :
    IsCall(calls[i], "filter_remove_small_objects") => CleanupKeepsLarge(calls[i], FALSE)

C5_Witness ==
  /\ calls # <<>>
  /\ IsCall(LastCall, "filter_remove_small_objects")
  /\ LastCall.local.min_size = 2
  /\ \E p, q \in Pixels :
       /\ CornerNeighbours(p, q) /\ ~EdgeNeighbours(p, q)
       /\ \A r \in Pixels : NonZero(LastCall.arg, r) <=> r \in {p, q}
       /\ \A r \in Pixels : ~Foreground(LastCall.ret, r)

\* half of the pixels are 10 and the other half 240
Bimodal(arr) ==
  /\ \A p \in Pixels : arr.data[p] \in {10, 240}
  /\ 2 * Cardinality({p \in Pixels : arr.data[p] = 10}) = Cardinality(Pixels)

\* C6: a pixel is foreground exactly when it is strictly above the one whole-image
\* threshold, and a half-10 half-240 image splits into its 240 and its 10 pixels.
C6_OtsuSplit ==
  \A i \in 1..Len(calls) :
    LET c == calls[i]
    IN IsCall(c, "filter_otsu_threshold") =>
         /\ \A p \in Pixels : Foreground(c.ret, p) <=> c.arg.data[p] > c.local.thresh
         /\ Bimodal(c.arg) => \A p \in Pixels : Foreground(c.ret, p) <=> c.arg.data[p] = 240

C6_Witness ==
  /\ calls # <<>>
  /\ IsCall(LastCall, "filter_otsu_threshold")
  /\ Bimodal(LastCall.arg)
  /\ \A p \in Pixels : Foreground(LastCall.ret, p) <=> LastCall.arg.data[p] = 240

\* C7: a pixel is foreground exactly when it exceeds high, or exceeds low and is joined,
\* through edge-sharing pixels that all exceed low, to a pixel that exceeds high.
C7_Hysteresis ==
  \A i \in 1..Len(calls) :
    LET c == calls[i]
        weak == {p \in Pixels : c.arg.data[p] > c.local.low}
    IN IsCall(c, "filter_hysteresis_threshold") =>
         \A p \in Pixels :
           Foreground(c.ret, p) <=>
             \/ c.arg.data[p] > c.local.high
             \/ /\ p \in weak
                /\ \E q \in Region(weak, FALSE, p) : c.arg.data[q] > c.local.high

C7_Witness ==
  /\ calls # <<>>
  /\ IsCall(LastCall, "filter_hysteresis_threshold")
  /\ LastCall.local.low < LastCall.local.high
  /\ \E p \in Pixels :
       /\ LastCall.arg.data[p] > LastCall.local.low
       /\ LastCall.arg.data[p] <= LastCall.local.high
       /\ Foreground(LastCall.ret, p)
       /\ \A r \in Pixels : EdgeNeighbours(p, r) => LastCall.arg.data[r] <= LastCall.local.high

\* the completed calls that are not np_to_pil, in call order
Reporting == SelectSeq(calls, LAMBDA c : c.fn # "np_to_pil")

\* C9: the diagnostic lines are, in call order, one per completed call other than
\* np_to_pil, each reporting the array that call returned.
C9_OneLinePerCall ==
  /\ Len(stdout) = Len(Reporting)
  /\ \A i \in 1..Len(stdout) :
       /\ stdout[i].arr = Reporting[i].ret
       /\ stdout[i].dtype = Reporting[i].ret.dtype

C9_Witness ==
  /\ Len(calls) = 2
  /\ IsCall(calls[1], "filter_rgb_to_grayscale")
  /\ IsCall(calls[2], "np_to_pil")
  /\ Len(stdout) = 1
  /\ stdout[1].name = "Gray"

\* C10: the module-level script calls pil_to_np_rgb, filter_rgb_to_grayscale, np_to_pil
\* and filter_complement in this order and never fails to resolve a name.
C10_ScriptResolvesNames ==
  /\ err # "NameError"
  /\ \A i \in 1..Len(calls) :
       calls[i].fn = <<"pil_to_np_rgb", "filter_rgb_to_grayscale", "np_to_pil",
                       "filter_complement">>[i]
====
